---- MODULE Spec2Model ----
(***************************************************************************)
(* Model of examples/scene/main.rs: the frame loop of the scene example.   *)
(*                                                                         *)
(*  - Example::new / render / destroy: deferred destruction of the         *)
(*    temporary buffers of a frame behind the sync point of the            *)
(*    submission that recorded them;                                       *)
(*  - the closure passed to event_loop.run: the window-event handlers that *)
(*    drive the camera (keys, mouse drag), the redraw handler that calls   *)
(*    render, and LoopDestroyed that calls destroy.                        *)
(*                                                                         *)
(* The GPU is a second process: it resolves submissions in order, at its   *)
(* own pace.  Rotations are modelled exactly: a quaternion is an element   *)
(* of the binary octahedral group (the 48 unit quaternions generated by    *)
(* quarter turns about the coordinate axes), kept as an integer vector     *)
(* with entries in {-1,0,1}; angles are counted in quarter turns and       *)
(* pointer coordinates in whole pixels.                                    *)
(***************************************************************************)
EXTENDS Integers, Sequences, FiniteSets, TLC

(***************************************************************************)
(* Bounds of the exploration.                                              *)
(***************************************************************************)
\* buffers reported by one scene load or one prepare
MaxAlloc == 2
\* pointer coordinates run over 0..MaxCoord
MaxCoord == 1
\* time a blocked wait is followed for
MaxWait == 2
\* the bounded timeout of the stall policy, in the same unit
PolicyTimeout == 1
\* the whole loop (Spec): window events, render calls, GUI edits
LoopEvents == 1
LoopFrames == 1
\* the frames (SpecFrames): render calls, exit requests
MaxFrames == 3
FrameEvents == 1
\* the drag gesture (SpecDrag): window events, GUI edits
DragEvents == 4
DragEdits == 1
\* the keys (SpecKeys): window events
KeyEvents == 3
KeyEdits == 1
\* progress (SpecLive): render calls, exit requests
LiveFrames == 2
LiveEvents == 1

(***************************************************************************)
(* Program constants.                                                      *)
(***************************************************************************)
\* `!0`, the timeout handed to wait_for: every bit set.  Kept as the
\* two's-complement reading of that pattern (the u32 reading, 4294967295,
\* is beyond the integers of the model checker).
AllOnes == -1
\* let move_speed = 1.0f32
move_speed == 1
\* let rotate_speed = 0.01f32 (radians per pixel); here quarter turns per pixel
rotate_speed == 1
\* let rotate_speed_z = 0.1f32 (radians); here quarter turns
rotate_speed_z == 1

\* Option<SyncPoint>::None; sync points are numbered 1, 2, ... by submission
None == 0

(***************************************************************************)
(* Quaternions <<x, y, z, w>> and vectors <<x, y, z>>.                     *)
(***************************************************************************)
Sgn(n) == IF n > 0 THEN 1 ELSE IF n < 0 THEN -1 ELSE 0

Norm2(q) == q[1] * q[1] + q[2] * q[2] + q[3] * q[3] + q[4] * q[4]

\* The representable unit quaternions: one, two or four non-zero entries of
\* equal magnitude (scaled by 1, 1/sqrt 2, 1/2).
Quats == {q \in [1..4 -> {-1, 0, 1}] : Norm2(q) \in {1, 2, 4}}

Identity == [i \in 1..4 |-> IF i = 4 THEN 1 ELSE 0]

\* Hamilton product of two integer quaternions (glam: Quat * Quat)
Hamilton(a, b) ==
    [i \in 1..4 |->
        CASE i = 1 -> a[4] * b[1] + a[1] * b[4] + a[2] * b[3] - a[3] * b[2]
          [] i = 2 -> a[4] * b[2] - a[1] * b[3] + a[2] * b[4] + a[3] * b[1]
          [] i = 3 -> a[4] * b[3] + a[1] * b[2] - a[2] * b[1] + a[3] * b[4]
          [] i = 4 -> a[4] * b[4] - a[1] * b[1] - a[2] * b[2] - a[3] * b[3]]

\* Product of two unit quaternions, rescaled to the unit representative
QMul(a, b) == LET h == Hamilton(a, b) IN [i \in 1..4 |-> Sgn(h[i])]

Conj(q) == [i \in 1..4 |-> IF i = 4 THEN q[4] ELSE -q[i]]

\* glam: Quat * Vec3, the vector v rotated by the unit quaternion q
QRot(q, v) ==
    LET p == [i \in 1..4 |-> IF i = 4 THEN 0 ELSE v[i]]
        qp == Hamilton(q, p)
        qc == Conj(q)
        r == Hamilton(qp, qc)
        n == Norm2(q)
    IN  [i \in 1..3 |-> r[i] \div n]

\* sin and cos of half the angle, for an angle of n quarter turns
HalfSin(n) == LET m == n % 8 IN
    IF m \in {1, 2, 3} THEN 1 ELSE IF m \in {5, 6, 7} THEN -1 ELSE 0

HalfCos(n) == LET m == n % 8 IN
    IF m \in {0, 1, 7} THEN 1 ELSE IF m \in {3, 4, 5} THEN -1 ELSE 0

\* glam: Quat::from_rotation_x / _y / _z
from_rotation_x(n) == <<HalfSin(n), 0, 0, HalfCos(n)>>

from_rotation_y(n) == <<0, HalfSin(n), 0, HalfCos(n)>>

from_rotation_z(n) == <<0, 0, HalfSin(n), HalfCos(n)>>

VAdd(a, b) == [i \in 1..3 |-> a[i] + b[i]]

VScale(n, a) == [i \in 1..3 |-> n * a[i]]


(***************************************************************************)
(* State.                                                                  *)
(***************************************************************************)
VARIABLES
    \* position of the loop thread: "loop" (between callbacks), inside render
    \* ("recorded", "submitted", "wait", "drain", "install"), inside destroy
    \* ("d_wait", "d_drain") or "done"
    pc,
    \* Example: prev_temp_buffers (Vec<Buffer>), prev_sync_point (Option)
    prev_temp_buffers, prev_sync_point,
    \* locals of render / destroy: temp_buffers, sync_point, sp
    temp_buffers, sync_point, sp,
    \* the result of the last wait_for and the time the current wait has lasted
    wait_result, waited,
    \* context: number of submissions made, and of submissions the GPU resolved
    submitted, gpu_done,
    \* sync points a wait_for has reported resolved
    observed,
    \* per buffer (buffers are numbered by creation): the frame that allocated
    \* it (0: scene loading), the submission that recorded it (None: not yet
    \* submitted), and the number of destroy_buffer calls it was passed to
    alloc_frame, recorded_by, destroyed,
    \* render calls begun and returned, and their per-call step counters
    started, returned, call_starts, call_submits, call_installs,
    \* event loop: control flow as the loop sees it, destroy calls made
    control_flow, destroy_calls,
    \* Example.camera.pos / .rot, and drag_start of main
    camera_pos, camera_rot, drag_start,
    \* input source: the left mouse button is physically held
    left_held,
    \* history of the window events: number handled, GUI edits made, the last
    \* callback (with its key, unless consumed), the pointer position of the
    \* last CursorMoved that was not consumed
    events, edits, last_event, last_pos,
    \* history of the current press: orientation at the press, and what has
    \* happened since
    press_rot, moved_since_press, rotkey_since_press, gui_rot_since_press,
    \* history of the gesture the controller tracks: orientation at the handled
    \* press and the position of the first handled pointer-move
    gesture_on, gesture_moves, gesture_base, gesture_ref,
    \* history of a run of forward presses, and of forward-then-backward
    run_len, run_pos, run_rot, ws_state, ws_pos,
    \* the controller as the last window event found it: drag_start, the
    \* moves the gesture had seen, whether the callback before it was a
    \* handled Q press, and camera.rot if the event is itself one
    before,
    \* the part of a run that is explored: the numbers of window events,
    \* render calls and GUI edits followed (fixed by each specification)
    budget

retire_vars ==
    <<prev_temp_buffers, prev_sync_point, temp_buffers, sync_point, sp,
      wait_result, waited, submitted, observed, alloc_frame, recorded_by,
      destroyed, started, returned, call_starts, call_submits, call_installs,
      destroy_calls>>

camera_vars == <<camera_pos, camera_rot, drag_start>>

history_vars ==
    <<budget, events, edits, last_event, last_pos, press_rot, moved_since_press,
      rotkey_since_press, gui_rot_since_press, gesture_on, gesture_moves,
      gesture_base, gesture_ref, run_len, run_pos, run_rot, ws_state, ws_pos,
      before>>

vars ==
    <<pc, retire_vars, gpu_done, control_flow, camera_vars, left_held,
      history_vars>>

\* drag_start = None
NoDrag ==
    [present |-> FALSE, has_pos |-> FALSE, screen_pos |-> <<0, 0>>,
     rotation |-> Identity]

\* Camera poses handed to Example::new
InitPositions == {<<0, 0, 0>>, <<2, 1, 2>>}

InitRotations == {Identity, <<1, 0, 0, 1>>, <<0, 1, 0, -1>>}

\* Pointer positions delivered by CursorMoved
Positions == (0..MaxCoord) \X (0..MaxCoord)

Buffers == 1..Len(alloc_frame)

Outstanding == {b \in Buffers : destroyed[b] = 0}

SeqRange(s) == {s[i] : i \in 1..Len(s)}

(***************************************************************************)
(* Example::new: scene loading reports k temporary buffers, recorded by    *)
(* the first submission, whose sync point becomes the pending one.         *)
(***************************************************************************)
Init ==
    /\ pc = "loop"
    /\ \E k \in 0..MaxAlloc :
        /\ prev_temp_buffers = [i \in 1..k |-> i]
        /\ alloc_frame = [i \in 1..k |-> 0]
        /\ recorded_by = [i \in 1..k |-> 1]
        /\ destroyed = [i \in 1..k |-> 0]
    /\ prev_sync_point = 1
    /\ submitted = 1
    /\ gpu_done = 0
    /\ observed = {}
    /\ temp_buffers = <<>>
    /\ sync_point = None
    /\ sp = None
    /\ wait_result = "none"
    /\ waited = 0
    /\ started = 0
    /\ returned = 0
    /\ call_starts = 0
    /\ call_submits = 0
    /\ call_installs = 0
    /\ control_flow = "Poll"
    /\ destroy_calls = 0
    /\ camera_pos \in InitPositions
    /\ camera_rot \in InitRotations
    /\ drag_start = NoDrag
    /\ left_held = FALSE
    /\ events = 0
    /\ edits = 0
    /\ last_event = [kind |-> "none", key |-> "", consumed |-> FALSE]
    /\ last_pos = <<0, 0>>
    /\ press_rot = Identity
    /\ moved_since_press = FALSE
    /\ rotkey_since_press = FALSE
    /\ gui_rot_since_press = FALSE
    /\ gesture_on = FALSE
    /\ gesture_moves = 0
    /\ gesture_base = Identity
    /\ gesture_ref = <<0, 0>>
    /\ run_len = 0
    /\ run_pos = <<0, 0, 0>>
    /\ run_rot = Identity
    /\ ws_state = "none"
    /\ ws_pos = <<0, 0, 0>>
    /\ before = [drag |-> NoDrag, rot |-> Identity, moves |-> 0, q |-> FALSE]

(***************************************************************************)
(* The GPU context.                                                        *)
(***************************************************************************)
\* The GPU finishes the oldest unresolved submission.
GpuResolve ==
    /\ gpu_done < submitted
    /\ gpu_done' = gpu_done + 1
    /\ UNCHANGED <<pc, retire_vars, control_flow, camera_vars, left_held,
                   history_vars>>

\* Time passes while the loop thread is blocked in a wait_for.
Tick ==
    /\ pc \in {"wait", "d_wait"}
    /\ sp > gpu_done
    /\ waited < MaxWait
    /\ waited' = waited + 1
    /\ UNCHANGED <<pc, prev_temp_buffers, prev_sync_point, temp_buffers,
                   sync_point, sp, wait_result, submitted, observed,
                   alloc_frame, recorded_by, destroyed, started, returned,
                   call_starts, call_submits, call_installs, destroy_calls,
                   gpu_done, control_flow, camera_vars, left_held,
                   history_vars>>

\* context.wait_for(sync point, timeout) after `elapsed` of waiting:
\* "resolved", "timed_out", or "blocked" while neither has happened; the
\* timeout !0 is unbounded.
wait_for(s, timeout, elapsed) ==
    IF s <= gpu_done THEN "resolved"
    ELSE IF timeout # AllOnes /\ elapsed >= timeout THEN "timed_out"
    ELSE "blocked"

\* context.destroy_buffer(b)
destroy_buffer(b) == [destroyed EXCEPT ![b] = @ + 1]


(***************************************************************************)
(* Example::render, step by step.  The thread enters it from the redraw    *)
(* handler (pc = "render") and is back in the loop when it returns.        *)
(***************************************************************************)
\* command_encoder.start(); update_textures; renderer.prepare(.., &mut
\* temp_buffers) reports n fresh buffers; ray_trace; acquire_frame; the pass.
RenderRecord(n) ==
    /\ pc = "render"
    /\ LET first == Len(alloc_frame) IN
        /\ temp_buffers' = [i \in 1..n |-> first + i]
        /\ alloc_frame' = alloc_frame \o [i \in 1..n |-> started]
        /\ recorded_by' = recorded_by \o [i \in 1..n |-> None]
        /\ destroyed' = destroyed \o [i \in 1..n |-> 0]
    /\ call_starts' = call_starts + 1
    /\ pc' = "recorded"
    /\ UNCHANGED <<prev_temp_buffers, prev_sync_point, sync_point, sp,
                   wait_result, waited, submitted, observed, started, returned,
                   call_submits, call_installs, destroy_calls, gpu_done,
                   control_flow, camera_vars, left_held, history_vars>>

\* (variant: the fresh sync point becomes the pending one at once)
RenderSubmit_Install ==
    /\ pc = "recorded"
    /\ submitted' = submitted + 1
    /\ sync_point' = submitted + 1
    /\ prev_sync_point' = submitted + 1
    /\ recorded_by' = [b \in DOMAIN recorded_by |->
                         IF recorded_by[b] = None THEN submitted + 1
                         ELSE recorded_by[b]]
    /\ call_submits' = call_submits + 1
    /\ pc' = "submitted"
    /\ UNCHANGED <<prev_temp_buffers, temp_buffers, sp,
                   wait_result, waited, observed, alloc_frame, destroyed,
                   started, returned, call_starts, call_installs,
                   destroy_calls, gpu_done, control_flow, camera_vars,
                   left_held, history_vars>>

\* command_encoder.present(frame); let sync_point = context.submit(..);
\* the submission records every buffer of this frame.
RenderSubmit ==
    /\ pc = "recorded"
    /\ submitted' = submitted + 1
    /\ sync_point' = submitted + 1
    /\ recorded_by' = [b \in DOMAIN recorded_by |->
                         IF recorded_by[b] = None THEN submitted + 1
                         ELSE recorded_by[b]]
    /\ call_submits' = call_submits + 1
    /\ pc' = "submitted"
    /\ UNCHANGED <<prev_temp_buffers, prev_sync_point, temp_buffers, sp,
                   wait_result, waited, observed, alloc_frame, destroyed,
                   started, returned, call_starts, call_installs,
                   destroy_calls, gpu_done, control_flow, camera_vars,
                   left_held, history_vars>>

\* (variant: the pending sync point is overwritten without being waited on)
RenderTake_Skip ==
    /\ pc = "submitted"
    /\ sp' = None
    /\ pc' = "install"
    /\ prev_sync_point' = None
    /\ waited' = 0
    /\ UNCHANGED <<prev_temp_buffers, temp_buffers, sync_point, wait_result,
                   submitted, observed, alloc_frame, recorded_by, destroyed,
                   started, returned, call_starts, call_submits,
                   call_installs, destroy_calls, gpu_done, control_flow,
                   camera_vars, left_held, history_vars>>

\* (variant: the wait is skipped when no buffer is pending)
RenderTake_IfBuffers ==
    /\ pc = "submitted"
    /\ IF prev_sync_point # None /\ prev_temp_buffers # <<>>
       THEN /\ sp' = prev_sync_point
            /\ pc' = "wait"
       ELSE /\ sp' = None
            /\ pc' = "install"
    /\ prev_sync_point' = None
    /\ waited' = 0
    /\ UNCHANGED <<prev_temp_buffers, temp_buffers, sync_point, wait_result,
                   submitted, observed, alloc_frame, recorded_by, destroyed,
                   started, returned, call_starts, call_submits,
                   call_installs, destroy_calls, gpu_done, control_flow,
                   camera_vars, left_held, history_vars>>

\* if let Some(sp) = self.prev_sync_point.take() { .. }
RenderTake ==
    /\ pc = "submitted"
    /\ IF prev_sync_point # None
       THEN /\ sp' = prev_sync_point
            /\ pc' = "wait"
       ELSE /\ sp' = None
            /\ pc' = "install"
    /\ prev_sync_point' = None
    /\ waited' = 0
    /\ UNCHANGED <<prev_temp_buffers, temp_buffers, sync_point, wait_result,
                   submitted, observed, alloc_frame, recorded_by, destroyed,
                   started, returned, call_starts, call_submits,
                   call_installs, destroy_calls, gpu_done, control_flow,
                   camera_vars, left_held, history_vars>>

\* (variant: the wait polls, with a timeout of 0)
RenderWait_Poll ==
    /\ pc = "wait"
    /\ LET r == wait_for(sp, 0, waited) IN
        /\ r # "blocked"
        /\ wait_result' = r
        /\ observed' = IF r = "resolved" THEN observed \cup {sp} ELSE observed
    /\ pc' = "drain"
    /\ waited' = 0
    /\ UNCHANGED <<prev_temp_buffers, prev_sync_point, temp_buffers,
                   sync_point, sp, submitted, alloc_frame, recorded_by,
                   destroyed, started, returned, call_starts, call_submits,
                   call_installs, destroy_calls, gpu_done, control_flow,
                   camera_vars, left_held, history_vars>>

\* (variant: the wait is bounded by the policy timeout)
RenderWait_Bounded ==
    /\ pc = "wait"
    /\ LET r == wait_for(sp, PolicyTimeout, waited) IN
        /\ r # "blocked"
        /\ wait_result' = r
        /\ observed' = IF r = "resolved" THEN observed \cup {sp} ELSE observed
    /\ pc' = "drain"
    /\ waited' = 0
    /\ UNCHANGED <<prev_temp_buffers, prev_sync_point, temp_buffers,
                   sync_point, sp, submitted, alloc_frame, recorded_by,
                   destroyed, started, returned, call_starts, call_submits,
                   call_installs, destroy_calls, gpu_done, control_flow,
                   camera_vars, left_held, history_vars>>

\* self.context.wait_for(&sp, !0); the thread is blocked until the call
\* returns, and the value it returns is dropped.
RenderWait ==
    /\ pc = "wait"
    /\ LET r == wait_for(sp, AllOnes, waited) IN
        /\ r # "blocked"
        /\ wait_result' = r
        /\ observed' = IF r = "resolved" THEN observed \cup {sp} ELSE observed
    /\ pc' = "drain"
    /\ waited' = 0
    /\ UNCHANGED <<prev_temp_buffers, prev_sync_point, temp_buffers,
                   sync_point, sp, submitted, alloc_frame, recorded_by,
                   destroyed, started, returned, call_starts, call_submits,
                   call_installs, destroy_calls, gpu_done, control_flow,
                   camera_vars, left_held, history_vars>>

\* (variant: only the first pending buffer is destroyed)
RenderDrain_One ==
    /\ pc = "drain"
    /\ IF prev_temp_buffers # <<>>
       THEN /\ destroyed' = destroy_buffer(Head(prev_temp_buffers))
            /\ prev_temp_buffers' = Tail(prev_temp_buffers)
       ELSE UNCHANGED <<destroyed, prev_temp_buffers>>
    /\ pc' = "install"
    /\ UNCHANGED <<prev_sync_point, temp_buffers, sync_point, sp, wait_result,
                   waited, submitted, observed, alloc_frame, recorded_by,
                   started, returned, call_starts, call_submits,
                   call_installs, destroy_calls, gpu_done, control_flow,
                   camera_vars, left_held, history_vars>>

\* (variant: the buffers are destroyed but stay in prev_temp_buffers)
RenderDrain_Keep ==
    /\ pc = "drain"
    /\ destroyed' = [b \in DOMAIN destroyed |->
                       IF b \in SeqRange(prev_temp_buffers)
                       THEN destroyed[b] + 1 ELSE destroyed[b]]
    /\ pc' = "install"
    /\ UNCHANGED <<prev_temp_buffers, prev_sync_point, temp_buffers,
                   sync_point, sp, wait_result,
                   waited, submitted, observed, alloc_frame, recorded_by,
                   started, returned, call_starts, call_submits,
                   call_installs, destroy_calls, gpu_done, control_flow,
                   camera_vars, left_held, history_vars>>

\* for buffer in self.prev_temp_buffers.drain(..) { destroy_buffer(buffer) },
\* one buffer per step
RenderDrain ==
    /\ pc = "drain"
    /\ IF prev_temp_buffers # <<>>
       THEN /\ destroyed' = destroy_buffer(Head(prev_temp_buffers))
            /\ prev_temp_buffers' = Tail(prev_temp_buffers)
            /\ pc' = "drain"
       ELSE /\ pc' = "install"
            /\ UNCHANGED <<destroyed, prev_temp_buffers>>
    /\ UNCHANGED <<prev_sync_point, temp_buffers, sync_point, sp, wait_result,
                   waited, submitted, observed, alloc_frame, recorded_by,
                   started, returned, call_starts, call_submits,
                   call_installs, destroy_calls, gpu_done, control_flow,
                   camera_vars, left_held, history_vars>>

\* (variant: the fresh sync point is not stored)
RenderInstall_Forget ==
    /\ pc = "install"
    /\ prev_sync_point' = None
    /\ prev_temp_buffers' = prev_temp_buffers \o temp_buffers
    /\ temp_buffers' = <<>>
    /\ sync_point' = None
    /\ sp' = None
    /\ call_installs' = call_installs + 1
    /\ returned' = returned + 1
    /\ pc' = "loop"
    /\ UNCHANGED <<wait_result, waited, submitted, observed, alloc_frame,
                   recorded_by, destroyed, started, call_starts, call_submits,
                   destroy_calls, gpu_done, control_flow, camera_vars,
                   left_held, history_vars>>

\* self.prev_sync_point = Some(sync_point);
\* self.prev_temp_buffers.extend(temp_buffers); and render returns.
RenderInstall ==
    /\ pc = "install"
    /\ prev_sync_point' = sync_point
    /\ prev_temp_buffers' = prev_temp_buffers \o temp_buffers
    /\ temp_buffers' = <<>>
    /\ sync_point' = None
    /\ sp' = None
    /\ call_installs' = call_installs + 1
    /\ returned' = returned + 1
    /\ pc' = "loop"
    /\ UNCHANGED <<wait_result, waited, submitted, observed, alloc_frame,
                   recorded_by, destroyed, started, call_starts, call_submits,
                   destroy_calls, gpu_done, control_flow, camera_vars,
                   left_held, history_vars>>

(***************************************************************************)
(* Example::destroy, entered from the LoopDestroyed handler.               *)
(***************************************************************************)
\* Event::LoopDestroyed => example.destroy():
\* if let Some(sp) = self.prev_sync_point.take() { .. }
LoopDestroyed ==
    /\ pc = "loop"
    /\ control_flow = "Exit"
    /\ destroy_calls' = destroy_calls + 1
    /\ IF prev_sync_point # None
       THEN /\ sp' = prev_sync_point
            /\ pc' = "d_wait"
       ELSE /\ sp' = None
            /\ pc' = "d_drain"
    /\ prev_sync_point' = None
    /\ waited' = 0
    /\ UNCHANGED <<prev_temp_buffers, temp_buffers, sync_point, wait_result,
                   submitted, observed, alloc_frame, recorded_by, destroyed,
                   started, returned, call_starts, call_submits,
                   call_installs, gpu_done, control_flow, camera_vars,
                   left_held, history_vars>>

\* (variant: the wait is bounded by the policy timeout)
DestroyWait_Bounded ==
    /\ pc = "d_wait"
    /\ LET r == wait_for(sp, PolicyTimeout, waited) IN
        /\ r # "blocked"
        /\ wait_result' = r
        /\ observed' = IF r = "resolved" THEN observed \cup {sp} ELSE observed
    /\ pc' = "d_drain"
    /\ waited' = 0
    /\ UNCHANGED <<prev_temp_buffers, prev_sync_point, temp_buffers,
                   sync_point, sp, submitted, alloc_frame, recorded_by,
                   destroyed, started, returned, call_starts, call_submits,
                   call_installs, destroy_calls, gpu_done, control_flow,
                   camera_vars, left_held, history_vars>>

\* self.context.wait_for(&sp, !0);
DestroyWait ==
    /\ pc = "d_wait"
    /\ LET r == wait_for(sp, AllOnes, waited) IN
        /\ r # "blocked"
        /\ wait_result' = r
        /\ observed' = IF r = "resolved" THEN observed \cup {sp} ELSE observed
    /\ pc' = "d_drain"
    /\ waited' = 0
    /\ UNCHANGED <<prev_temp_buffers, prev_sync_point, temp_buffers,
                   sync_point, sp, submitted, alloc_frame, recorded_by,
                   destroyed, started, returned, call_starts, call_submits,
                   call_installs, destroy_calls, gpu_done, control_flow,
                   camera_vars, left_held, history_vars>>

\* (variant: destroy frees the first pending buffer only)
DestroyDrain_One ==
    /\ pc = "d_drain"
    /\ IF prev_temp_buffers # <<>>
       THEN /\ destroyed' = destroy_buffer(Head(prev_temp_buffers))
            /\ prev_temp_buffers' = Tail(prev_temp_buffers)
       ELSE UNCHANGED <<destroyed, prev_temp_buffers>>
    /\ pc' = "done"
    /\ sp' = None
    /\ UNCHANGED <<prev_sync_point, temp_buffers, sync_point, wait_result,
                   waited, submitted, observed, alloc_frame, recorded_by,
                   started, returned, call_starts, call_submits,
                   call_installs, destroy_calls, gpu_done, control_flow,
                   camera_vars, left_held, history_vars>>

\* for buffer in self.prev_temp_buffers.drain(..) { destroy_buffer(buffer) };
\* gui_painter.destroy; renderer.destroy; destroy returns.
DestroyDrain ==
    /\ pc = "d_drain"
    /\ IF prev_temp_buffers # <<>>
       THEN /\ destroyed' = destroy_buffer(Head(prev_temp_buffers))
            /\ prev_temp_buffers' = Tail(prev_temp_buffers)
            /\ pc' = "d_drain"
            /\ sp' = sp
       ELSE /\ pc' = "done"
            /\ sp' = None
            /\ UNCHANGED <<destroyed, prev_temp_buffers>>
    /\ UNCHANGED <<prev_sync_point, temp_buffers, sync_point, wait_result,
                   waited, submitted, observed, alloc_frame, recorded_by,
                   started, returned, call_starts, call_submits,
                   call_installs, destroy_calls, gpu_done, control_flow,
                   camera_vars, left_held, history_vars>>


(***************************************************************************)
(* The closure of event_loop.run: one action per event it matches.  A      *)
(* callback runs only while the thread is in the loop.  Every window event *)
(* first goes to egui_winit.on_event, which may consume it.                *)
(***************************************************************************)
\* *control_flow = ControlFlow::Poll on entry, then what the handler sets;
\* the loop keeps Exit once a callback has left it set.
SetFlow(v) == IF control_flow = "Exit" THEN "Exit" ELSE v

Keys == {"Escape", "W", "S", "A", "D", "Z", "X", "Q", "E", "Other"}

\* the camera-local offset of a translation key
KeyOffset(key) ==
    CASE key = "W" -> <<0, 0, move_speed>>
      [] key = "S" -> <<0, 0, -move_speed>>
      [] key = "A" -> <<-move_speed, 0, 0>>
      [] key = "D" -> <<move_speed, 0, 0>>
      [] key = "Z" -> <<0, -move_speed, 0>>
      [] key = "X" -> <<0, move_speed, 0>>

\* (variant: the offset is added in world space)
move_camera_by_world(pos, rot, offset) == VAdd(pos, offset)

\* Example::move_camera_by: the new camera.pos
move_camera_by(pos, rot, offset) ==
    LET dir == QRot(rot, offset) IN VAdd(pos, dir)

\* (variant: the rotation is applied in world space, on the left)
rotate_camera_z_by_world(rot, angle) == QMul(from_rotation_z(angle), rot)

\* Example::rotate_camera_z_by: the new camera.rot
rotate_camera_z_by(rot, angle) == QMul(rot, from_rotation_z(angle))

\* the controller as a window event finds it; the orientation is kept for
\* a handled Q press (q_press) only
Snapshot(q_press) ==
    [drag |-> drag_start,
     rot |-> IF q_press THEN camera_rot ELSE Identity,
     moves |-> gesture_moves,
     q |-> (last_event.kind = "KeyboardInput" /\ last_event.key = "Q")]

KeepPress ==
    UNCHANGED <<press_rot, moved_since_press, rotkey_since_press,
                gui_rot_since_press>>

KeepGesture == UNCHANGED <<gesture_on, gesture_moves, gesture_base, gesture_ref>>

ResetRun ==
    /\ run_len' = 0
    /\ ws_state' = "none"
    /\ UNCHANGED <<run_pos, run_rot, ws_pos>>

\* WindowEvent::KeyboardInput { virtual_keycode: Some(key), state: Pressed }
KeyboardInput(key, consumed) ==
    /\ pc = "loop"
    /\ events < budget.events
    /\ control_flow' =
         SetFlow(IF ~consumed /\ key = "Escape" THEN "Exit" ELSE "Poll")
    /\ camera_pos' =
         IF ~consumed /\ key \in {"W", "S", "A", "D", "Z", "X"}
         THEN move_camera_by(camera_pos, camera_rot, KeyOffset(key))
         ELSE camera_pos
    /\ camera_rot' =
         IF consumed THEN camera_rot
         ELSE IF key = "Q" THEN rotate_camera_z_by(camera_rot, rotate_speed_z)
         ELSE IF key = "E" THEN rotate_camera_z_by(camera_rot, -rotate_speed_z)
         ELSE camera_rot
    /\ events' = events + 1
    /\ before' = Snapshot(~consumed /\ key = "Q")
    /\ UNCHANGED <<edits, budget>>
    /\ last_event' = [kind |-> "KeyboardInput",
                      key |-> IF consumed THEN "" ELSE key,
                      consumed |-> consumed]
    /\ rotkey_since_press' =
         (rotkey_since_press \/ (~consumed /\ key \in {"Q", "E"}))
    /\ IF ~consumed /\ key = "W"
       THEN /\ run_len' = run_len + 1
            /\ run_pos' = IF run_len = 0 THEN camera_pos ELSE run_pos
            /\ run_rot' = IF run_len = 0 THEN camera_rot ELSE run_rot
            /\ ws_state' = "W"
            /\ ws_pos' = camera_pos
       ELSE IF ~consumed /\ key = "S" /\ ws_state = "W"
       THEN /\ ws_state' = "WS"
            /\ run_len' = 0
            /\ UNCHANGED <<run_pos, run_rot, ws_pos>>
       ELSE ResetRun
    /\ KeepGesture
    /\ UNCHANGED <<pc, retire_vars, gpu_done, drag_start, left_held, last_pos,
                   press_rot, moved_since_press, gui_rot_since_press>>

\* (variant: the close request frees the pending buffers at once)
CloseRequested_Drain(consumed) ==
    /\ pc = "loop"
    /\ events < budget.events
    /\ control_flow' = SetFlow(IF consumed THEN "Poll" ELSE "Exit")
    /\ events' = events + 1
    /\ before' = Snapshot(FALSE)
    /\ UNCHANGED <<edits, budget>>
    /\ last_event' = [kind |-> "CloseRequested", key |-> "",
                      consumed |-> consumed]
    /\ prev_temp_buffers' = <<>>
    /\ destroyed' = [b \in DOMAIN destroyed |->
                       IF b \in SeqRange(prev_temp_buffers)
                       THEN destroyed[b] + 1 ELSE destroyed[b]]
    /\ ResetRun
    /\ KeepPress
    /\ KeepGesture
    /\ UNCHANGED <<pc, prev_sync_point, temp_buffers, sync_point, sp,
                   wait_result, waited, submitted, observed, alloc_frame,
                   recorded_by, started, returned, call_starts, call_submits,
                   call_installs, destroy_calls, gpu_done, camera_vars,
                   left_held, last_pos>>

\* WindowEvent::CloseRequested
CloseRequested(consumed) ==
    /\ pc = "loop"
    /\ events < budget.events
    /\ control_flow' = SetFlow(IF consumed THEN "Poll" ELSE "Exit")
    /\ events' = events + 1
    /\ before' = Snapshot(FALSE)
    /\ UNCHANGED <<edits, budget>>
    /\ last_event' = [kind |-> "CloseRequested", key |-> "",
                      consumed |-> consumed]
    /\ ResetRun
    /\ KeepPress
    /\ KeepGesture
    /\ UNCHANGED <<pc, retire_vars, gpu_done, camera_vars, left_held, last_pos>>

\* (variant: a press takes the window origin as the reference)
MouseInputDrag_Origin(state, drag, rot) ==
    IF state = "Pressed"
    THEN [present |-> TRUE, has_pos |-> TRUE, screen_pos |-> <<0, 0>>,
          rotation |-> rot]
    ELSE NoDrag

\* (variant: every button event toggles the drag)
MouseInputDrag_Toggle(state, drag, rot) ==
    IF ~drag.present
    THEN [present |-> TRUE, has_pos |-> FALSE, screen_pos |-> <<0, 0>>,
          rotation |-> rot]
    ELSE NoDrag

\* WindowEvent::MouseInput { state, button: Left }: the new drag_start
MouseInputDrag(state, drag, rot) ==
    IF state = "Pressed"
    THEN [present |-> TRUE, has_pos |-> FALSE, screen_pos |-> <<0, 0>>,
          rotation |-> rot]
    ELSE NoDrag

\* (variant: a press also recenters the orientation)
MouseInput_Recenter(state, consumed) ==
    /\ pc = "loop"
    /\ events < budget.events
    /\ (state = "Pressed") = ~left_held
    /\ left_held' = (state = "Pressed")
    /\ control_flow' = SetFlow("Poll")
    /\ drag_start' =
         IF consumed THEN drag_start
         ELSE MouseInputDrag(state, drag_start, camera_rot)
    /\ events' = events + 1
    /\ before' = Snapshot(FALSE)
    /\ UNCHANGED <<edits, budget>>
    /\ last_event' = [kind |-> state, key |-> "", consumed |-> consumed]
    /\ IF state = "Pressed"
       THEN /\ press_rot' = camera_rot
            /\ moved_since_press' = FALSE
            /\ rotkey_since_press' = FALSE
            /\ gui_rot_since_press' = FALSE
       ELSE KeepPress
    /\ IF consumed
       THEN KeepGesture
       ELSE /\ gesture_on' = (state = "Pressed")
            /\ gesture_moves' = 0
            /\ gesture_base' = IF state = "Pressed" THEN camera_rot
                               ELSE Identity
            /\ gesture_ref' = <<0, 0>>
    /\ ResetRun
    /\ camera_rot' = IF ~consumed /\ state = "Pressed" THEN Identity
                      ELSE camera_rot
    /\ UNCHANGED <<pc, retire_vars, gpu_done, camera_pos, last_pos>>

MouseInput(state, consumed) ==
    /\ pc = "loop"
    /\ events < budget.events
    /\ (state = "Pressed") = ~left_held
    /\ left_held' = (state = "Pressed")
    /\ control_flow' = SetFlow("Poll")
    /\ drag_start' =
         IF consumed THEN drag_start
         ELSE MouseInputDrag(state, drag_start, camera_rot)
    /\ events' = events + 1
    /\ before' = Snapshot(FALSE)
    /\ UNCHANGED <<edits, budget>>
    /\ last_event' = [kind |-> state, key |-> "", consumed |-> consumed]
    /\ IF state = "Pressed"
       THEN /\ press_rot' = camera_rot
            /\ moved_since_press' = FALSE
            /\ rotkey_since_press' = FALSE
            /\ gui_rot_since_press' = FALSE
       ELSE KeepPress
    /\ IF consumed
       THEN KeepGesture
       ELSE /\ gesture_on' = (state = "Pressed")
            /\ gesture_moves' = 0
            /\ gesture_base' = IF state = "Pressed" THEN camera_rot
                               ELSE Identity
            /\ gesture_ref' = <<0, 0>>
    /\ ResetRun
    /\ UNCHANGED <<pc, retire_vars, gpu_done, camera_pos, camera_rot, last_pos>>

\* WindowEvent::CursorMoved { position }, drag_start = Some(drag) with
\* drag.screen_pos = Some(screen_pos): the new camera.rot
CursorMovedRot(drag, position) ==
    LET qx == from_rotation_y((position[1] - drag.screen_pos[1]) * rotate_speed)
        qy == from_rotation_x((position[2] - drag.screen_pos[2]) * rotate_speed)
    IN  QMul(QMul(drag.rotation, qy), qx)

\* (variant: the reference follows the pointer)
CursorMovedDrag_Follow(drag, position) ==
    IF drag.present
    THEN [drag EXCEPT !.has_pos = TRUE, !.screen_pos = position]
    ELSE drag

\* ... and the new drag_start
CursorMovedDrag(drag, position) ==
    IF drag.present /\ ~drag.has_pos
    THEN [drag EXCEPT !.has_pos = TRUE, !.screen_pos = position]
    ELSE drag

CursorMoved(position, consumed) ==
    /\ pc = "loop"
    /\ events < budget.events
    /\ control_flow' = SetFlow("Poll")
    /\ camera_rot' =
         IF ~consumed /\ drag_start.present /\ drag_start.has_pos
         THEN CursorMovedRot(drag_start, position)
         ELSE camera_rot
    /\ drag_start' =
         IF consumed THEN drag_start ELSE CursorMovedDrag(drag_start, position)
    /\ events' = events + 1
    /\ before' = Snapshot(FALSE)
    /\ UNCHANGED <<edits, budget>>
    /\ last_event' = [kind |-> "CursorMoved", key |-> "",
                      consumed |-> consumed]
    /\ last_pos' = IF consumed THEN last_pos ELSE position
    /\ moved_since_press' = TRUE
    /\ IF ~consumed /\ gesture_on
       THEN /\ gesture_moves' = IF gesture_moves < 2 THEN gesture_moves + 1
                                ELSE 2
            /\ gesture_ref' = IF gesture_moves = 0 THEN position
                              ELSE gesture_ref
            /\ UNCHANGED <<gesture_on, gesture_base>>
       ELSE KeepGesture
    /\ ResetRun
    /\ UNCHANGED <<pc, retire_vars, gpu_done, camera_pos, left_held,
                   press_rot, rotkey_since_press, gui_rot_since_press>>

\* any other window event: `_ => {}`
OtherEvent(consumed) ==
    /\ pc = "loop"
    /\ events < budget.events
    /\ control_flow' = SetFlow("Poll")
    /\ events' = events + 1
    /\ before' = Snapshot(FALSE)
    /\ UNCHANGED <<edits, budget>>
    /\ last_event' = [kind |-> "Other", key |-> "", consumed |-> consumed]
    /\ ResetRun
    /\ KeepPress
    /\ KeepGesture
    /\ UNCHANGED <<pc, retire_vars, gpu_done, camera_vars, left_held, last_pos>>

\* Event::RedrawEventsCleared => window.request_redraw()
RedrawEventsCleared ==
    /\ pc = "loop"
    /\ control_flow # SetFlow("Poll")
    /\ control_flow' = SetFlow("Poll")
    /\ UNCHANGED <<pc, retire_vars, gpu_done, camera_vars, left_held,
                   history_vars>>

\* Example::add_gui: the DragValue widgets let the user overwrite one
\* component of camera.pos or of camera.rot (kept within the representable
\* rotations), or nothing.
GuiEdits ==
    {[field |-> "none", i |-> 1, v |-> 0]}
    \cup {[field |-> "pos", i |-> i, v |-> v] : i \in 1..3, v \in {0, 1}}
    \cup {[field |-> "rot", i |-> i, v |-> v] : i \in 1..4, v \in {-1, 0, 1}}

add_gui_pos(pos, edit) ==
    IF edit.field = "pos" THEN [pos EXCEPT ![edit.i] = edit.v] ELSE pos

add_gui_rot(rot, edit) ==
    IF edit.field = "rot" THEN [rot EXCEPT ![edit.i] = edit.v] ELSE rot

\* Event::RedrawRequested: the GUI runs (add_gui, the Quit button), the
\* control flow is set, and example.render is called.
RedrawRequested(quit, edit) ==
    /\ pc = "loop"
    /\ started < budget.frames
    /\ edit.field # "none" => edits < budget.edits
    /\ add_gui_rot(camera_rot, edit) \in Quats
    /\ edits' = IF edit.field = "none" THEN edits ELSE edits + 1
    /\ edit.field = "pos" => add_gui_pos(camera_pos, edit) # camera_pos
    /\ edit.field = "rot" => add_gui_rot(camera_rot, edit) # camera_rot
    /\ camera_pos' = add_gui_pos(camera_pos, edit)
    /\ camera_rot' = add_gui_rot(camera_rot, edit)
    /\ control_flow' = SetFlow(IF quit THEN "Exit" ELSE "Wait")
    /\ started' = started + 1
    /\ call_starts' = 0
    /\ call_submits' = 0
    /\ call_installs' = 0
    /\ pc' = "render"
    /\ last_event' = [kind |-> "RedrawRequested", key |-> "",
                      consumed |-> FALSE]
    /\ gui_rot_since_press' = (gui_rot_since_press \/ edit.field = "rot")
    /\ ResetRun
    /\ KeepGesture
    /\ UNCHANGED <<prev_temp_buffers, prev_sync_point, temp_buffers,
                   sync_point, sp, wait_result, waited, submitted, observed,
                   alloc_frame, recorded_by, destroyed, returned,
                   destroy_calls, gpu_done, drag_start, left_held, events,
                   last_pos, press_rot, moved_since_press, rotkey_since_press,
                   before, budget>>

(***************************************************************************)
(* The program.                                                            *)
(***************************************************************************)
Next ==
    \/ GpuResolve
    \/ Tick
    \/ \E key \in Keys, consumed \in BOOLEAN : KeyboardInput(key, consumed)
    \/ \E consumed \in BOOLEAN : CloseRequested(consumed)
    \/ \E state \in {"Pressed", "Released"}, consumed \in BOOLEAN :
          MouseInput(state, consumed)
    \/ \E position \in Positions, consumed \in BOOLEAN :
          CursorMoved(position, consumed)
    \/ \E consumed \in BOOLEAN : OtherEvent(consumed)
    \/ RedrawEventsCleared
    \/ \E quit \in BOOLEAN, edit \in GuiEdits : RedrawRequested(quit, edit)
    \/ \E n \in 0..MaxAlloc : RenderRecord(n)
    \/ RenderSubmit
    \/ RenderTake
    \/ RenderWait
    \/ RenderDrain
    \/ RenderInstall
    \/ LoopDestroyed
    \/ DestroyWait
    \/ DestroyDrain

\* The whole loop, over a few events and frames, from one camera pose and a
\* scene whose loading reported buffers; the GUI edits of the camera are
\* left to SpecDrag and SpecKeys.
InitLoop ==
    /\ Init
    /\ prev_temp_buffers # <<>>
    /\ camera_pos = <<2, 1, 2>>
    /\ camera_rot = <<0, 1, 0, -1>>
    /\ budget = [events |-> LoopEvents, frames |-> LoopFrames, edits |-> 0]

Spec == InitLoop /\ [][Next]_vars

(***************************************************************************)
(* The frames in depth: render, the GPU and destroy, with the events that  *)
(* request the exit.  The camera, which no step of render or destroy       *)
(* reads or writes, stays as constructed.                                  *)
(***************************************************************************)
InitFrames ==
    /\ Init
    /\ camera_pos = <<0, 0, 0>>
    /\ camera_rot = Identity
    /\ budget = [events |-> FrameEvents, frames |-> MaxFrames, edits |-> 0]

NoEdit == [field |-> "none", i |-> 1, v |-> 0]

NextFrames ==
    \/ GpuResolve
    \/ Tick
    \/ KeyboardInput("Escape", FALSE)
    \/ CloseRequested(FALSE)
    \/ RedrawEventsCleared
    \/ \E quit \in BOOLEAN : RedrawRequested(quit, NoEdit)
    \/ \E n \in 0..MaxAlloc : RenderRecord(n)
    \/ RenderSubmit
    \/ RenderTake
    \/ RenderWait
    \/ RenderDrain
    \/ RenderInstall
    \/ LoopDestroyed
    \/ DestroyWait
    \/ DestroyDrain

SpecFrames == InitFrames /\ [][NextFrames]_vars

(***************************************************************************)
(* The drag gesture in depth: mouse button, pointer moves, the rotation    *)
(* keys, and the frames in which the GUI edits the orientation.            *)
(***************************************************************************)
InitDrag ==
    /\ Init
    /\ prev_temp_buffers = <<>>
    /\ camera_pos = <<0, 0, 0>>
    /\ camera_rot = <<1, 0, 0, 1>>
    /\ budget = [events |-> DragEvents, frames |-> DragEdits,
                 edits |-> DragEdits]

NextDrag ==
    \/ GpuResolve
    \/ \E key \in {"Q", "E"} : KeyboardInput(key, FALSE)
    \/ \E state \in {"Pressed", "Released"}, consumed \in BOOLEAN :
          MouseInput(state, consumed)
    \/ \E position \in Positions : CursorMoved(position, FALSE)
    \/ CursorMoved(<<0, 0>>, TRUE)
    \/ \E edit \in {e \in GuiEdits : e.field = "rot" /\ e.i = 1} :
          RedrawRequested(FALSE, edit)
    \/ RenderRecord(0)
    \/ RenderSubmit
    \/ RenderTake
    \/ RenderWait
    \/ RenderDrain
    \/ RenderInstall

SpecDrag == InitDrag /\ [][NextDrag]_vars

(***************************************************************************)
(* The keys in depth, with the frames in which the GUI edits the position. *)
(***************************************************************************)
InitKeys ==
    /\ Init
    /\ prev_temp_buffers = <<>>
    /\ budget = [events |-> KeyEvents, frames |-> KeyEdits,
                 edits |-> KeyEdits]

NextKeys ==
    \/ GpuResolve
    \/ \E key \in Keys : KeyboardInput(key, FALSE)
    \/ KeyboardInput("W", TRUE)
    \/ OtherEvent(FALSE)
    \/ \E edit \in {e \in GuiEdits : e.field = "pos" /\ e.i = 3} :
          RedrawRequested(FALSE, edit)
    \/ RenderRecord(0)
    \/ RenderSubmit
    \/ RenderTake
    \/ RenderWait
    \/ RenderDrain
    \/ RenderInstall

SpecKeys == InitKeys /\ [][NextKeys]_vars

(***************************************************************************)
(* Progress: the frames with the scheduling the program has.  The loop     *)
(* thread runs the straight-line code of render and of destroy to the      *)
(* end, and the GPU finishes what was submitted to it.  The time a wait    *)
(* lasts is not followed here.                                             *)
(***************************************************************************)
InitLive ==
    /\ Init
    /\ camera_pos = <<0, 0, 0>>
    /\ camera_rot = Identity
    /\ budget = [events |-> LiveEvents, frames |-> LiveFrames, edits |-> 0]

\* the next statement of Example::render
RenderStep ==
    \/ \E n \in 0..MaxAlloc : RenderRecord(n)
    \/ RenderSubmit
    \/ RenderTake
    \/ RenderWait
    \/ RenderDrain
    \/ RenderInstall

\* the next statement of Example::destroy
DestroyStep == DestroyWait \/ DestroyDrain

NextLive ==
    \/ GpuResolve
    \/ KeyboardInput("Escape", FALSE)
    \/ CloseRequested(FALSE)
    \/ RedrawEventsCleared
    \/ \E quit \in BOOLEAN : RedrawRequested(quit, NoEdit)
    \/ RenderStep
    \/ LoopDestroyed
    \/ DestroyStep

SpecLive ==
    /\ InitLive
    /\ [][NextLive]_vars
    /\ WF_vars(GpuResolve)
    /\ WF_vars(RenderStep)
    /\ WF_vars(DestroyStep)

(***************************************************************************)
(* Properties.                                                             *)
(***************************************************************************)
\* the generations (by allocating frame) of a set of buffers
Generations(bs) == {alloc_frame[b] : b \in bs}

\* C1: a temporary buffer is passed to destroy_buffer only after a wait_for
\* on the sync point of the submission that recorded it (the scene-load
\* submission of new, or the submit of the render call that allocated it)
\* has reported resolved.
C1_DestroyedOnlyAfterObserved ==
    \A b \in Buffers :
        destroyed[b] > 0 => recorded_by[b] # None /\ recorded_by[b] \in observed

\* C1 happens: destroy has returned after freeing a scene-load buffer and a
\* buffer allocated by a render call.
C1_Witness ==
    /\ pc = "done"
    /\ \E b \in Buffers, c \in Buffers :
        /\ alloc_frame[b] = 0 /\ destroyed[b] > 0
        /\ alloc_frame[c] > 0 /\ destroyed[c] > 0

\* C2: a buffer allocated while recording frame N is freed no later than the
\* retirement step of frame N+2: once the render call of frame N+2 has
\* returned, no buffer of frame N or earlier is outstanding; and between
\* render calls the pending buffers belong to one generation.
C2_FreedByFrameNPlus2 ==
    /\ \A b \in Buffers : returned >= alloc_frame[b] + 2 => destroyed[b] > 0
    /\ pc = "loop" => Cardinality(Generations(SeqRange(prev_temp_buffers))) <= 1

\* C2 happens: three render calls have returned, the first of which
\* allocated a buffer, and scene loading allocated one too.
C2_Witness ==
    /\ returned = 3
    /\ pc = "loop"
    /\ \E b \in Buffers, c \in Buffers :
        alloc_frame[b] = 0 /\ alloc_frame[c] = 1 /\ destroyed[c] > 0

\* C3: at most two retirement generations exist: the one being built (the
\* local temp_buffers) and at most one pending (prev_temp_buffers with
\* prev_sync_point, or the sync point just taken out of it); the new
\* generation is installed only after the pending one has been drained.
C3_AtMostTwoGenerations ==
    /\ Cardinality(Generations(Outstanding)) <= 2
    /\ Cardinality(Generations(SeqRange(prev_temp_buffers))) <= 1
    /\ Outstanding =
         SeqRange(prev_temp_buffers) \cup SeqRange(temp_buffers)
    /\ Generations(SeqRange(temp_buffers)) \subseteq {started}
    /\ Cardinality({prev_sync_point, sp} \ {None}) <= 1
    /\ pc = "install" => prev_temp_buffers = <<>> /\ prev_sync_point = None

\* C3 happens: a render call is about to install a generation of two
\* buffers after draining a pending one of two buffers.
C3_Witness ==
    /\ pc = "install"
    /\ Len(temp_buffers) = 2
    /\ \E b \in Buffers, c \in Buffers :
        /\ b # c
        /\ alloc_frame[b] = started - 1 /\ destroyed[b] > 0
        /\ alloc_frame[c] = started - 1 /\ destroyed[c] > 0

\* C4: when destroy returns, no temporary buffer is outstanding, no sync
\* point is pending, and the last submitted GPU work has resolved and has
\* been observed resolved by a wait without a time bound.
C4_DestroyLeavesNothing ==
    pc = "done" =>
        /\ Outstanding = {}
        /\ prev_temp_buffers = <<>>
        /\ prev_sync_point = None
        /\ gpu_done = submitted
        /\ submitted \in observed
        /\ wait_result = "resolved"

\* C4 happens: destroy has returned after two render calls, the last of
\* which allocated a buffer.
C4_Witness ==
    /\ pc = "done"
    /\ returned = 2
    /\ \E b \in Buffers : alloc_frame[b] = 2

\* The wait of render has lasted beyond the bounded timeout of the stall
\* policy while the pending sync point is unresolved.
RenderWaitOverdue == pc = "wait" /\ sp > gpu_done /\ waited > PolicyTimeout

\* C5 (as stated): when the wait of the retirement step of render does not
\* report resolved within the policy timeout, render leaves the wait and
\* surfaces a device-stalled condition: it is never still waiting beyond
\* the timeout.
C5_StallSurfaced == ~RenderWaitOverdue

\* C5 (amended): the wait of render has no bound (timeout !0): it never
\* reports a timeout and no device-stalled condition is surfaced; while the
\* pending sync point is unresolved render stays in the wait with every
\* buffer of the pending generation undestroyed in prev_temp_buffers, and it
\* starts freeing them only once the wait has reported resolved.
C5_WaitsUnbounded ==
    /\ wait_result # "timed_out"
    /\ pc = "wait" =>
         \A b \in Buffers :
            recorded_by[b] = sp =>
                destroyed[b] = 0 /\ b \in SeqRange(prev_temp_buffers)
    /\ pc = "drain" => sp \in observed /\ wait_result = "resolved"

\* C5 happens: render is still in the wait beyond the policy timeout, the
\* pending generation of two buffers intact.
C5_Witness == RenderWaitOverdue /\ Len(prev_temp_buffers) = 2

\* C6: retirement progresses only at the end of a frame: a render call that
\* has returned opened recording once, submitted once and installed once,
\* a buffer is destroyed during a render call only after that call's submit,
\* and no window-event handler (key, mouse button, pointer move, close
\* request, other) waits on a sync point or frees a buffer.
C6_RetirementAtFrameEnd ==
    /\ [](/\ (pc = "loop" /\ returned > 0) =>
               call_starts = 1 /\ call_submits = 1 /\ call_installs = 1
          /\ pc \in {"wait", "drain", "install"} =>
               call_starts = 1 /\ call_submits = 1 /\ call_installs = 0
          /\ submitted = 1 + returned
                           + (IF pc \in {"submitted", "wait", "drain", "install"}
                              THEN 1 ELSE 0))
    /\ [][events' # events =>
            UNCHANGED <<prev_temp_buffers, prev_sync_point, destroyed,
                        observed, wait_result, submitted, pc>>]_vars
    /\ [][(\E b \in Buffers : destroyed'[b] # destroyed[b]) =>
            pc \in {"drain", "d_drain"}]_vars

\* C6 happens: a render call has returned, a window event has been
\* handled, and a buffer has been freed.
C6_Witness ==
    /\ pc = "loop"
    /\ returned = 1
    /\ events = 1
    /\ \E b \in Buffers : destroyed[b] > 0

\* C7: drag_start is present if and only if the left mouse button is held.
C7_DragIffHeld == drag_start.present <=> left_held

\* C8 (as stated): after a release that follows its press with no
\* pointer-move event in between, the orientation equals the orientation at
\* the press.
C8_ReleaseRestores ==
    (last_event.kind = "Released" /\ ~moved_since_press) =>
        camera_rot = press_rot

\* C8 (amended): after a release that follows its press with no pointer-move
\* event, no handled rotation-key press (Q, E) and no GUI edit of the
\* orientation in between, the orientation equals the orientation at the
\* press.
C8_ReleaseKeepsOrientation ==
    (/\ last_event.kind = "Released"
     /\ ~moved_since_press
     /\ ~rotkey_since_press
     /\ ~gui_rot_since_press) => camera_rot = press_rot

\* C8 happens: the fourth event is the handled release of a press, the
\* camera turned away from the identity, no pointer-move, rotation key or
\* GUI edit of the orientation since the press.
C8_Witness ==
    /\ last_event.kind = "Released"
    /\ ~last_event.consumed
    /\ ~moved_since_press /\ ~rotkey_since_press /\ ~gui_rot_since_press
    /\ events = 4
    /\ ~drag_start.present
    /\ camera_rot # Identity

\* the last callback was a pointer-move handled while the drag was tracking
\* (its reference had been captured by an earlier move)
TrackedMove ==
    /\ last_event.kind = "CursorMoved"
    /\ ~last_event.consumed
    /\ gesture_on
    /\ gesture_moves = 2

\* base composed with pitch(k*dy), then yaw(k*dx)
DragRotation(base, dx, dy) ==
    QMul(QMul(base, from_rotation_x(rotate_speed * dy)),
         from_rotation_y(rotate_speed * dx))

\* C9: after every pointer-move of a tracking drag the orientation is
\* base_rotation composed with pitch(k*dy) then yaw(k*dx), (dx, dy) being the
\* pointer position minus the reference captured at the first move and
\* base_rotation the orientation at the press: it depends on the total
\* displacement only, it acts on vectors as yaw, then pitch, then the base
\* rotation, and with the pointer back at the reference it is base_rotation.
C9_DragFromBase ==
    TrackedMove =>
        LET dx == last_pos[1] - gesture_ref[1]
            dy == last_pos[2] - gesture_ref[2]
            pitch == from_rotation_x(rotate_speed * dy)
            yaw == from_rotation_y(rotate_speed * dx)
        IN  /\ camera_rot = DragRotation(gesture_base, dx, dy)
            /\ \A v \in {<<1, 0, 0>>, <<0, 1, 0>>, <<0, 0, 1>>} :
                 \A yawed \in {QRot(yaw, v)} :
                   \A pitched \in {QRot(pitch, yawed)} :
                     QRot(camera_rot, v) = QRot(gesture_base, pitched)
            /\ (dx = 0 /\ dy = 0) => camera_rot = gesture_base
            /\ drag_start.rotation = gesture_base
            /\ drag_start.screen_pos = gesture_ref

\* C9 happens: the second tracked move of a gesture, displaced from the
\* reference in both coordinates, after a first tracked move elsewhere.
C9_Witness ==
    /\ TrackedMove
    /\ events = 4
    /\ last_pos[1] # gesture_ref[1]
    /\ last_pos[2] # gesture_ref[2]
    /\ camera_rot # gesture_base

\* Q * (0, 0, step) for a unit quaternion Q, from the third column of its
\* rotation matrix
Forward(q) ==
    LET n == Norm2(q) IN
    <<(2 * (q[1] * q[3] + q[4] * q[2]) * move_speed) \div n,
      (2 * (q[2] * q[3] - q[4] * q[1]) * move_speed) \div n,
      ((n - 2 * (q[1] * q[1] + q[2] * q[2])) * move_speed) \div n>>

\* C10: N consecutive handled forward presses from position P with
\* orientation Q give P + N * Q*(0,0,step) and leave the orientation Q; a
\* forward press followed by a backward press restores P.
C10_ForwardSteps ==
    /\ run_len > 0 =>
         /\ camera_pos = VAdd(run_pos, VScale(run_len, Forward(run_rot)))
         /\ camera_rot = run_rot
    /\ ws_state = "WS" => camera_pos = ws_pos

\* C10 happens: three forward presses of a camera whose forward axis is not
\* the world z axis.
C10_Witness ==
    /\ run_len = 3
    /\ Forward(run_rot) # <<0, 0, move_speed>>
    /\ camera_pos # run_pos

\* C10 happens: a forward press followed by a backward press.
C10_WitnessBack == ws_state = "WS" /\ Forward(camera_rot) # <<0, 0, move_speed>>

\* a step that is the callback of a window event which egui did not consume
Handled(kind) ==
    /\ events' = events + 1
    /\ last_event'.kind = kind
    /\ ~last_event'.consumed

\* C11: a release of the rotation button that the controller receives while
\* Idle (drag_start = None) leaves drag_start absent and the camera position
\* and orientation as they were, and the loop goes on; so does a pointer-move
\* received while Idle.
C11_IdleNoOp ==
    [][((Handled("Released") \/ Handled("CursorMoved"))
          /\ ~drag_start.present) =>
        /\ drag_start' = NoDrag
        /\ drag_start' = drag_start
        /\ camera_pos' = camera_pos
        /\ camera_rot' = camera_rot
        /\ pc' = "loop"
        /\ control_flow' = SetFlow("Poll")]_vars

\* C11 happens: the button went down over the GUI (the press was consumed),
\* and its release reached the controller while Idle.
C11_Witness ==
    /\ last_event.kind = "Released"
    /\ ~last_event.consumed
    /\ ~before.drag.present
    /\ ~left_held
    /\ drag_start = NoDrag
    /\ camera_rot = press_rot

\* C11 happens: a pointer-move reached the controller while Idle.
C11_WitnessMove ==
    /\ last_event.kind = "CursorMoved"
    /\ ~last_event.consumed
    /\ ~before.drag.present
    /\ last_pos # <<0, 0>>
    /\ drag_start = NoDrag


\* the thread is inside a render call
InRender == pc \in {"render", "recorded", "submitted", "wait", "drain", "install"}

\* C12: within a render call, the frame is submitted and its fresh sync point
\* obtained first; then the sync point that was pending before is waited on;
\* then every buffer of the generation that was pending is destroyed; only
\* then do the fresh sync point and the buffers of this frame become the
\* pending generation.  No render call destroys a buffer it allocated.
C12_RenderOrder ==
    /\ pc \in {"submitted", "wait", "drain", "install"} =>
         /\ call_submits = 1
         /\ sync_point = submitted
         /\ \A b \in SeqRange(temp_buffers) : recorded_by[b] = sync_point
    /\ pc \in {"wait", "drain"} =>
         /\ sp # None /\ sp < sync_point
         /\ prev_sync_point = None
    /\ pc = "wait" => \A b \in SeqRange(prev_temp_buffers) : destroyed[b] = 0
    /\ pc \in {"drain", "install"} => (sp # None => sp \in observed)
    /\ pc = "install" =>
         /\ prev_temp_buffers = <<>>
         /\ \A b \in Buffers : alloc_frame[b] < started => destroyed[b] > 0
    /\ InRender =>
         /\ prev_sync_point # submitted \/ pc \in {"render", "recorded"}
         /\ SeqRange(temp_buffers) \cap SeqRange(prev_temp_buffers) = {}
         /\ \A b \in SeqRange(temp_buffers) : destroyed[b] = 0
    /\ \A b \in Buffers :
         destroyed[b] > 0 => alloc_frame[b] < started \/ destroy_calls > 0
    /\ (pc = "loop" /\ returned > 0) =>
         /\ prev_sync_point = submitted
         /\ \A b \in SeqRange(prev_temp_buffers) : alloc_frame[b] = returned

\* C12 happens: the second render call has returned; it destroyed the two
\* buffers of the first call and left its own two pending behind its sync
\* point.
C12_Witness ==
    /\ pc = "loop"
    /\ returned = 2
    /\ Len(prev_temp_buffers) = 2
    /\ prev_sync_point = submitted
    /\ Cardinality({b \in Buffers : alloc_frame[b] = 1 /\ destroyed[b] = 1}) = 2
    /\ \A b \in SeqRange(prev_temp_buffers) :
         alloc_frame[b] = 2 /\ destroyed[b] = 0


\* C13: a press the controller receives starts a drag that awaits its
\* reference, with the orientation as base; the first pointer-move it then
\* receives only records its position as the reference and leaves the
\* orientation alone; every later pointer-move of the gesture leaves the
\* reference and the base alone; and a release that follows a move back to
\* the reference leaves the orientation at its value at that press.
C13_FirstMoveSetsReference ==
    /\ [][Handled("Pressed") =>
            /\ drag_start' = [present |-> TRUE, has_pos |-> FALSE,
                              screen_pos |-> <<0, 0>>, rotation |-> camera_rot]
            /\ camera_rot' = camera_rot]_vars
    /\ [][(Handled("CursorMoved") /\ drag_start.present
             /\ ~drag_start.has_pos) =>
            /\ camera_rot' = camera_rot
            /\ drag_start'.present /\ drag_start'.has_pos
            /\ drag_start'.screen_pos = last_pos'
            /\ drag_start'.rotation = drag_start.rotation]_vars
    /\ [][(Handled("CursorMoved") /\ drag_start.present
             /\ drag_start.has_pos) => drag_start' = drag_start]_vars
    /\ [][(Handled("Released") /\ TrackedMove /\ last_pos = gesture_ref) =>
            /\ camera_rot' = gesture_base
            /\ camera_rot' = camera_rot]_vars

\* C13 happens: press, first move, a move to the same position, release,
\* all received by the controller, of a camera turned away from the
\* identity.
C13_Witness ==
    /\ events = 4
    /\ last_event.kind = "Released"
    /\ ~last_event.consumed
    /\ before.moves = 2
    /\ before.drag.has_pos
    /\ last_pos = before.drag.screen_pos
    /\ last_pos # <<0, 0>>
    /\ before.drag.rotation = press_rot
    /\ camera_rot = press_rot
    /\ camera_rot # Identity
    /\ ~rotkey_since_press /\ ~gui_rot_since_press


\* C14: once the rotation button has been released, and until it is pressed
\* again, no pointer-move changes the orientation and no window event other
\* than a rotation-key press (Q, E) does; and no mouse-button or
\* pointer-move event ever changes the camera position.
C14_NoRotationAfterRelease ==
    /\ [][(events' = events + 1 /\ last_event'.kind = "CursorMoved"
             /\ ~left_held) => camera_rot' = camera_rot]_vars
    /\ [][(events' = events + 1 /\ ~left_held /\ ~left_held'
             /\ camera_rot' # camera_rot) =>
            (Handled("KeyboardInput") /\ last_event'.key \in {"Q", "E"})]_vars
    /\ [][(events' = events + 1
             /\ last_event'.kind \in {"Pressed", "Released", "CursorMoved"})
            => camera_pos' = camera_pos]_vars


\* a step that is the callback of a press of `key` which egui did not consume
HandledKey(key) == Handled("KeyboardInput") /\ last_event'.key = key

\* C15: a press of Q (of E) sets the orientation to the current orientation
\* composed with the rotation by rotate_speed_z (by -rotate_speed_z) about
\* z, whether a drag is active or not, and leaves drag_start and the camera
\* position alone; Q followed at once by E restores the orientation.
C15_RotationKeys ==
    /\ [][HandledKey("Q") =>
            /\ camera_rot' =
                 QMul(camera_rot, from_rotation_z(rotate_speed_z))
            /\ camera_rot' # camera_rot
            /\ drag_start' = drag_start
            /\ camera_pos' = camera_pos]_vars
    /\ [][HandledKey("E") =>
            /\ camera_rot' =
                 QMul(camera_rot, from_rotation_z(-rotate_speed_z))
            /\ camera_rot' # camera_rot
            /\ drag_start' = drag_start
            /\ camera_pos' = camera_pos]_vars
    /\ [][(HandledKey("E") /\ last_event.kind = "KeyboardInput"
             /\ last_event.key = "Q") => camera_rot' = before.rot]_vars

\* C15 happens: Q then E while a drag is tracking; the orientation went away
\* from the base of the drag and came back.
C15_Witness ==
    /\ events = 4
    /\ last_event.kind = "KeyboardInput"
    /\ last_event.key = "E"
    /\ before.q
    /\ before.drag.present /\ before.drag.has_pos
    /\ drag_start = before.drag
    /\ camera_rot = drag_start.rotation
    /\ ~gui_rot_since_press


\* C16: once an exit has been requested (the control flow is Exit), no render
\* call submits a frame before destroy is called, and destroy is called
\* exactly once.
C16_ExitStraightToDestroy ==
    /\ [][(control_flow = "Exit" /\ destroy_calls = 0) =>
            submitted' = submitted]_vars
    /\ [](destroy_calls <= 1)
    /\ [](pc = "done" => destroy_calls = 1 /\ control_flow = "Exit")


\* C17: between the return of Example::new and the call of destroy, before
\* and after each render call, prev_sync_point is present; so render always
\* takes its retirement branch, the drain of destroy always follows a wait
\* that reported resolved, and prev_temp_buffers never holds buffers of more
\* than one generation.
C17_SyncPointAlwaysPending ==
    /\ (pc = "loop" /\ destroy_calls = 0) => prev_sync_point # None
    /\ pc \in {"render", "recorded", "submitted"} => prev_sync_point # None
    /\ pc \in {"wait", "drain", "install"} => sp # None
    /\ pc \in {"d_wait", "d_drain"} => sp # None
    /\ pc = "d_drain" => sp \in observed /\ wait_result = "resolved"
    /\ (pc = "loop" /\ destroy_calls = 0) =>
         \A b \in SeqRange(prev_temp_buffers) :
             recorded_by[b] = prev_sync_point
    /\ Cardinality({recorded_by[b] : b \in SeqRange(prev_temp_buffers)}) <= 1

\* C17 happens: after two render calls destroy has waited and is draining
\* the buffers of the second.
C17_Witness ==
    /\ pc = "d_drain"
    /\ returned = 2
    /\ Len(prev_temp_buffers) = 2
    /\ sp = submitted
    /\ sp \in observed
    /\ \A b \in SeqRange(prev_temp_buffers) : alloc_frame[b] = 2


\* the buffers a sequence holds, with their multiplicity
Held(q, b) == Cardinality({i \in 1..Len(q) : q[i] = b})

\* C18: over a run (new, render calls, destroy) every temporary buffer that
\* scene loading or renderer.prepare reported is destroyed exactly once: no
\* buffer is passed to destroy_buffer twice, a buffer not yet destroyed is
\* held exactly once by prev_temp_buffers or by the temp_buffers of the
\* running render call, a destroyed one is held by neither, and when destroy
\* has returned every buffer has been destroyed once.
C18_DestroyedExactlyOnce ==
    /\ \A b \in Buffers : destroyed[b] <= 1
    /\ \A b \in Buffers :
         Held(prev_temp_buffers, b) + Held(temp_buffers, b) =
            1 - destroyed[b]
    /\ SeqRange(prev_temp_buffers) \cup SeqRange(temp_buffers) \subseteq Buffers
    /\ pc = "done" => \A b \in Buffers : destroyed[b] = 1

\* C18 happens: destroy has returned after three render calls; scene loading
\* and each call reported two buffers, and all eight were destroyed once.
C18_Witness ==
    /\ pc = "done"
    /\ returned = 3
    /\ Len(alloc_frame) = 8
    /\ \A b \in Buffers : destroyed[b] = 1


\* submissions the GPU has not resolved yet
Unresolved == submitted - gpu_done

\* C19: whenever a render call has returned, every submission made before
\* that call's own submit has been observed resolved; so between frames at
\* most one submitted batch (the latest) is unresolved, during a render call
\* at most two, and the CPU is never more than one frame ahead of the GPU.
C19_OneFrameAhead ==
    /\ (pc = "loop" /\ returned > 0) =>
         /\ \A s \in 1..(submitted - 1) : s \in observed
         /\ gpu_done >= submitted - 1
    /\ pc \in {"loop", "render", "recorded"} => Unresolved <= 1
    /\ Unresolved <= 2
    /\ pc \in {"drain", "install"} =>
         /\ \A s \in 1..(submitted - 1) : s \in observed
         /\ Unresolved <= 1
    /\ submitted = returned + 1 + (IF pc \in {"submitted", "wait", "drain",
                                               "install"} THEN 1 ELSE 0)

\* C19 happens: a render call is blocked in its wait with two submissions
\* unresolved, its own and the one before; and the GPU lags a returned call
\* by exactly its submission.
C19_Witness ==
    /\ pc = "wait"
    /\ returned = 1
    /\ Unresolved = 2
    /\ waited > 0
    /\ sp = submitted - 1

\* C19 happens: two render calls have returned and only the submission of
\* the second is unresolved.
C19_WitnessLoop ==
    /\ pc = "loop"
    /\ returned = 2
    /\ Unresolved = 1
    /\ observed = 1..(submitted - 1)


\* the loop does not stay between callbacks for ever: it renders another
\* frame or shuts down
LoopProgress == (pc = "loop") ~> (pc # "loop")

\* some buffer of generation g is outstanding / all of them were destroyed
Pending(g) == \E b \in Buffers : alloc_frame[b] = g /\ destroyed[b] = 0

Retired(g) == \A b \in Buffers : alloc_frame[b] = g => destroyed[b] > 0

\* C20: if every submitted batch eventually resolves and the loop eventually
\* renders another frame or shuts down, then every temporary buffer that was
\* allocated is eventually destroyed, and every wait of render and of
\* destroy eventually returns.
C20_EventuallyRetired ==
    LoopProgress =>
        /\ \A g \in 0..LiveFrames : Pending(g) ~> Retired(g)
        /\ (pc = "wait") ~> (pc = "drain")
        /\ (pc = "d_wait") ~> (pc = "d_drain")
        /\ <>(pc = "done" /\ Outstanding = {})

\* C20 happens: destroy has returned after two render calls that had to
\* wait for the GPU; scene loading and each call had reported two buffers.
C20_Witness ==
    /\ pc = "done"
    /\ returned = 2
    /\ Len(alloc_frame) = 6
    /\ Outstanding = {}
    /\ observed = 1..submitted


====
